---- MODULE Spec2Model ----
(***************************************************************************)
(* State-machine model of the action handlers of the desktop client UI:    *)
(*   - the sync context menu (togglePause, deleteSync and their event      *)
(*     listeners),                                                         *)
(*   - the drive list context menu (createDirectory, selection reset),     *)
(*     under a drive list that moves between directories,                  *)
(*   - the directory public-link panel (toggleStatus, save, copyLink, the  *)
(*     staged fields, status query, link-key decryption).                  *)
(* Every handler is an async function: it is modelled as one action per    *)
(* synchronous segment (from its start or from the resumption of an await  *)
(* up to the next await or to its end, catch and finally included).        *)
(* A running invocation is a record of `calls` holding the values captured *)
(* by its closure and the await it is suspended at.                        *)
(***************************************************************************)
EXTENDS Integers, FiniteSets, Sequences, TLC

VARIABLES
    desktopConfig,      \* useDesktopConfig(): the local desktop configuration
    selectedSync,       \* syncs store: selected sync (NoSync when null)
    changing,           \* syncs store: shared "changing" flag
    remotePaused,       \* desktop side: paused value per sync uuid
    remoteRemoved,      \* desktop side: sync uuids flagged removed
    location,           \* current route, as its path segments
    calls,              \* handler invocations suspended at an await
    nextId,             \* serial number of the next invocation
    toasts,             \* loading toasts: per invocation id, creations minus dismissals
    errorToasts,        \* number of error toasts shown so far
    items,              \* drive items store: the displayed listing
    directoryUUIDToNameCache, \* cache: directory uuid -> name
    parent,             \* useRouteParent(): the directory the drive listing shows
    remoteLink,         \* server side: public link status of the panel's directory
    query,              \* useQuery(directoryPublicLinkStatus): isSuccess and data
    status,             \* panel state: status (<<>> when null)
    saving,             \* panel prop: saving flag
    open,               \* panel prop: the dialog holding the panel is open
    showSave,           \* panel prop: the save button is shown
    password,           \* panel state: staged password
    expiration,         \* panel state: staged expiration
    showPassword,       \* panel state: password visibility
    decryptedLinkKey,   \* panel state: decrypted link key (NoKey when "")
    downloadBtn,        \* panel state: staged download flag
    effectPending,      \* the dependencies of the query effect changed since its last run
    timers,             \* pending setTimeout(() => setSaving(false), 100)
    decrypting,         \* decryptDirectoryLinkKey calls in flight, per key
    clipboard,          \* navigator.clipboard: the link text last written (<<>> when none)
    successToasts,      \* number of success toasts shown so far
    rejected            \* id of the invocation whose awaited call rejected in the last step

syncVars == <<desktopConfig, selectedSync, changing, remotePaused, remoteRemoved>>
driveVars == <<items, directoryUUIDToNameCache, parent>>
toastVars == <<toasts, errorToasts>>
stagedVars == <<password, expiration, showPassword, downloadBtn>>
linkVars == <<remoteLink, query, status, saving, open, showSave, stagedVars,
              decryptedLinkKey, effectPending, timers, decrypting>>
copyVars == <<clipboard, successToasts>>
vars == <<syncVars, driveVars, linkVars, toastVars, copyVars, location, calls, nextId, rejected>>

(***************************************************************************)
(* Bounds                                                                  *)
(***************************************************************************)
MaxCalls == 2
MaxSyncs == 2

MaxItemUUID == 4

MaxLinks == 2
MaxDecrypts == 2

SyncUUIDs == 1..MaxSyncs
NoSync == 0
ItemUUIDs == 1..MaxItemUUID
Names == {"a", "A", "b", "c", "d"}
InputValues == {"A", "d"}
LinkKeys == 1..MaxLinks
NoKey == 0
PanelItem == 1
Parents == {"root", "sub"}

(***************************************************************************)
(* Helpers                                                                 *)
(***************************************************************************)
Map(f(_), s) == [i \in 1..Len(s) |-> f(s[i])]

Filter(p(_), s) == SelectSeq(s, p)

Routes == {<<"syncs">>, <<"drive">>, <<"links">>}

Includes(loc, segment) == \E i \in 1..Len(loc) : loc[i] = segment

\* const toast = loadingToast()
loadingToast(shown, id) == [shown EXCEPT ![id] = @ + 1]

\* toast.dismiss()
dismiss(shown, id) == [shown EXCEPT ![id] = @ - 1]

SyncPairs == desktopConfig.syncConfig.syncPairs

\* const syncConfig = useMemo(...filter(pair => pair.uuid === sync.uuid)[0] ?? null)
syncConfig(uuid) ==
    LET found == Filter(LAMBDA pair : pair.uuid = uuid, SyncPairs)
    IN  IF Len(found) = 0 THEN <<>> ELSE <<found[1]>>

(***************************************************************************)
(* Sync context menu: togglePause                                          *)
(***************************************************************************)
\* variant: the map sets the flag of every pair
pausedPairsAll(prev, uuid, paused) ==
    [prev EXCEPT !.syncConfig.syncPairs = Map(LAMBDA pair : [pair EXCEPT !.paused = paused], @)]

\* syncPairs: prev.syncConfig.syncPairs.map(pair => pair.uuid === sync.uuid ? {...pair, paused} : pair)
pausedPairs(prev, uuid, paused) ==
    [prev EXCEPT !.syncConfig.syncPairs =
        Map(LAMBDA pair : IF pair.uuid = uuid THEN [pair EXCEPT !.paused = paused] ELSE pair, @)]

\* togglePause up to its first await
togglePause(uuid) ==
    /\ nextId <= MaxCalls
    /\ nextId' = nextId + 1
    /\ IF syncConfig(uuid) = <<>>
       THEN UNCHANGED <<changing, calls, toasts>>
       ELSE /\ changing' = TRUE
            /\ toasts' = loadingToast(toasts, nextId)
            /\ calls' = calls \cup {[id |-> nextId, op |-> "togglePause",
                                     await |-> "syncUpdatePaused", acked |-> FALSE, uuid |-> uuid,
                                     paused |-> ~syncConfig(uuid)[1].paused]}
    /\ rejected' = 0
    /\ UNCHANGED <<copyVars, linkVars, desktopConfig, selectedSync, remotePaused, remoteRemoved, driveVars,
                   errorToasts, location>>

\* <ContextMenuItem onClick={togglePause}>, rendered only when syncConfig is not null
MenuTogglePause(uuid) ==
    /\ syncConfig(uuid) # <<>>
    /\ togglePause(uuid)

\* eventEmitter.on("toggleSyncPause", ...) of the component whose sync.uuid is uuid
EmitToggleSyncPause(uuid) == togglePause(uuid)

\* variant: the catch block only logs the error
syncCatchFinallySilent(c) ==
    /\ changing' = FALSE
    /\ toasts' = dismiss(toasts, c.id)
    /\ calls' = calls \ {c}
    /\ rejected' = c.id
    /\ UNCHANGED <<copyVars, linkVars, desktopConfig, selectedSync, remotePaused, remoteRemoved, driveVars,
                   errorToasts, location, nextId>>

\* catch and finally of the two sync handlers
syncCatchFinally(c) ==
    /\ errorToasts' = errorToasts + 1
    /\ changing' = FALSE
    /\ toasts' = dismiss(toasts, c.id)
    /\ calls' = calls \ {c}
    /\ rejected' = c.id
    /\ UNCHANGED <<copyVars, linkVars, desktopConfig, selectedSync, remotePaused, remoteRemoved, driveVars,
                   location, nextId>>

syncUpdatePausedResolve(c) ==
    /\ c.op = "togglePause" /\ c.await = "syncUpdatePaused"
    /\ remotePaused' = [remotePaused EXCEPT ![c.uuid] = c.paused]
    /\ calls' = (calls \ {c}) \cup {[c EXCEPT !.await = "syncResetCache", !.acked = TRUE]}
    /\ rejected' = 0
    /\ UNCHANGED <<copyVars, linkVars, desktopConfig, selectedSync, changing, remoteRemoved, driveVars,
                   toastVars, location, nextId>>

syncUpdatePausedReject(c) ==
    /\ c.op = "togglePause" /\ c.await = "syncUpdatePaused"
    /\ syncCatchFinally(c)

syncResetCacheResolve(c) ==
    /\ c.op = "togglePause" /\ c.await = "syncResetCache"
    /\ desktopConfig' = pausedPairs(desktopConfig, c.uuid, c.paused)
    /\ changing' = FALSE
    /\ toasts' = dismiss(toasts, c.id)
    /\ calls' = calls \ {c}
    /\ rejected' = 0
    /\ UNCHANGED <<copyVars, linkVars, selectedSync, remotePaused, remoteRemoved, driveVars,
                   errorToasts, location, nextId>>

syncResetCacheReject(c) ==
    /\ c.op = "togglePause" /\ c.await = "syncResetCache"
    /\ syncCatchFinally(c)

(***************************************************************************)
(* Sync context menu: deleteSync                                           *)
(***************************************************************************)
\* variant: the filter keeps the pair instead of dropping it
removedPairsInverted(prev, uuid) ==
    [prev EXCEPT !.syncConfig.syncPairs = Filter(LAMBDA pair : pair.uuid = uuid, @)]

\* syncPairs: prev.syncConfig.syncPairs.filter(pair => pair.uuid !== sync.uuid)
removedPairs(prev, uuid) ==
    [prev EXCEPT !.syncConfig.syncPairs = Filter(LAMBDA pair : pair.uuid # uuid, @)]

\* deleteSync up to its first await: the confirmation prompt
deleteSync(uuid) ==
    /\ nextId <= MaxCalls
    /\ nextId' = nextId + 1
    /\ calls' = calls \cup {[id |-> nextId, op |-> "deleteSync",
                             await |-> "showConfirmDialog", acked |-> FALSE, uuid |-> uuid]}
    /\ rejected' = 0
    /\ UNCHANGED <<copyVars, linkVars, syncVars, driveVars, toastVars, location>>

\* <ContextMenuItem onClick={deleteSync}>, rendered only when syncConfig is not null
MenuDeleteSync(uuid) ==
    /\ syncConfig(uuid) # <<>>
    /\ deleteSync(uuid)

\* eventEmitter.on("deleteSync", ...) of the component whose sync.uuid is uuid
EmitDeleteSync(uuid) == deleteSync(uuid)

\* variant: a cancelled prompt is reported as an error
confirmDialogCancelToast(c) ==
    /\ c.op = "deleteSync" /\ c.await = "showConfirmDialog"
    /\ errorToasts' = errorToasts + 1
    /\ calls' = calls \ {c}
    /\ rejected' = 0
    /\ UNCHANGED <<copyVars, linkVars, syncVars, driveVars, toasts, location, nextId>>

\* showConfirmDialog resolves false
confirmDialogCancel(c) ==
    /\ c.op = "deleteSync" /\ c.await = "showConfirmDialog"
    /\ calls' = calls \ {c}
    /\ rejected' = 0
    /\ UNCHANGED <<copyVars, linkVars, syncVars, driveVars, toastVars, location, nextId>>

\* variant: the selection is cleared as soon as the prompt is confirmed
confirmDialogContinueEager(c) ==
    /\ c.op = "deleteSync" /\ c.await = "showConfirmDialog"
    /\ changing' = TRUE
    /\ selectedSync' = NoSync
    /\ toasts' = loadingToast(toasts, c.id)
    /\ calls' = (calls \ {c}) \cup {[c EXCEPT !.await = "syncUpdateRemoved"]}
    /\ rejected' = 0
    /\ UNCHANGED <<copyVars, linkVars, desktopConfig, remotePaused, remoteRemoved, driveVars,
                   errorToasts, location, nextId>>

\* showConfirmDialog resolves true
confirmDialogContinue(c) ==
    /\ c.op = "deleteSync" /\ c.await = "showConfirmDialog"
    /\ changing' = TRUE
    /\ toasts' = loadingToast(toasts, c.id)
    /\ calls' = (calls \ {c}) \cup {[c EXCEPT !.await = "syncUpdateRemoved"]}
    /\ rejected' = 0
    /\ UNCHANGED <<copyVars, linkVars, desktopConfig, selectedSync, remotePaused, remoteRemoved, driveVars,
                   errorToasts, location, nextId>>

syncUpdateRemovedResolve(c) ==
    /\ c.op = "deleteSync" /\ c.await = "syncUpdateRemoved"
    /\ remoteRemoved' = remoteRemoved \cup {c.uuid}
    /\ selectedSync' = NoSync
    /\ desktopConfig' = removedPairs(desktopConfig, c.uuid)
    /\ location' = <<"syncs">>
    /\ changing' = FALSE
    /\ toasts' = dismiss(toasts, c.id)
    /\ calls' = calls \ {c}
    /\ rejected' = 0
    /\ UNCHANGED <<copyVars, linkVars, remotePaused, driveVars, errorToasts, nextId>>

syncUpdateRemovedReject(c) ==
    /\ c.op = "deleteSync" /\ c.await = "syncUpdateRemoved"
    /\ syncCatchFinally(c)

(***************************************************************************)
(* Drive list context menu: createDirectory                                *)
(***************************************************************************)
\* String.prototype.toLowerCase on the modelled names
toLowerCase(name) == CASE name = "A" -> "a" [] OTHER -> name

\* variant: the names are compared as they are
createdItemsCaseSensitive(prev, item) ==
    Append(Filter(LAMBDA prevItem : prevItem.uuid # item.uuid /\ prevItem.name # item.name,
                  prev),
           item)

\* setItems(prev => [...prev.filter(uuid differs && lower-case name differs), item])
createdItems(prev, item) ==
    Append(Filter(LAMBDA prevItem : /\ prevItem.uuid # item.uuid
                                    /\ toLowerCase(prevItem.name) # toLowerCase(item.name),
                  prev),
           item)

\* createDirectory up to its first await: the input prompt
createDirectory ==
    /\ nextId <= MaxCalls
    /\ nextId' = nextId + 1
    /\ calls' = calls \cup {[id |-> nextId, op |-> "createDirectory",
                             await |-> "showInputDialog", acked |-> FALSE, parent |-> parent]}
    /\ rejected' = 0
    /\ UNCHANGED <<copyVars, linkVars, syncVars, driveVars, toastVars, location>>

\* <ContextMenuItem onClick={createDirectory}>, rendered only on a drive route
MenuCreateDirectory ==
    /\ Includes(location, "drive")
    /\ createDirectory

\* eventEmitter.on("createFolderTrigger", createDirectory)
EmitCreateFolderTrigger == createDirectory

\* showInputDialog resolves with cancelled set
inputDialogCancel(c) ==
    /\ c.op = "createDirectory" /\ c.await = "showInputDialog"
    /\ calls' = calls \ {c}
    /\ rejected' = 0
    /\ UNCHANGED <<copyVars, linkVars, syncVars, driveVars, toastVars, location, nextId>>

\* showInputDialog resolves with a value
inputDialogContinue(c, value) ==
    /\ c.op = "createDirectory" /\ c.await = "showInputDialog"
    /\ toasts' = loadingToast(toasts, c.id)
    /\ calls' = (calls \ {c}) \cup {[id |-> c.id, op |-> c.op,
                                       await |-> "createDirectory", acked |-> FALSE, value |-> value,
                                       parent |-> c.parent]}
    /\ rejected' = 0
    /\ UNCHANGED <<copyVars, linkVars, syncVars, driveVars, errorToasts, location, nextId>>

\* worker.createDirectory resolves with item, the directory of the name passed to it
createDirectoryResolve(c, item) ==
    /\ c.op = "createDirectory" /\ c.await = "createDirectory"
    /\ item.name = c.value
    /\ directoryUUIDToNameCache' = [directoryUUIDToNameCache EXCEPT ![item.uuid] = c.value]
    /\ items' = createdItems(items, item)
    /\ toasts' = dismiss(toasts, c.id)
    /\ calls' = calls \ {c}
    /\ rejected' = 0
    /\ UNCHANGED <<copyVars, linkVars, syncVars, parent, errorToasts, location, nextId>>

\* variant: the toast is dismissed at the end of the try block only
createDirectoryRejectLeak(c) ==
    /\ c.op = "createDirectory" /\ c.await = "createDirectory"
    /\ errorToasts' = errorToasts + 1
    /\ calls' = calls \ {c}
    /\ rejected' = c.id
    /\ UNCHANGED <<copyVars, linkVars, syncVars, driveVars, toasts, location, nextId>>

\* worker.createDirectory rejects: catch and finally
createDirectoryReject(c) ==
    /\ c.op = "createDirectory" /\ c.await = "createDirectory"
    /\ errorToasts' = errorToasts + 1
    /\ toasts' = dismiss(toasts, c.id)
    /\ calls' = calls \ {c}
    /\ rejected' = c.id
    /\ UNCHANGED <<copyVars, linkVars, syncVars, driveVars, location, nextId>>

\* <CM onOpenChange={open => { if (open) setItems(prev => prev.map(... selected: false)) }}>
onOpenChange ==
    /\ Includes(location, "drive")
    /\ items' = Map(LAMBDA prevItem : [prevItem EXCEPT !.selected = FALSE], items)
    /\ rejected' = 0
    /\ UNCHANGED <<copyVars, linkVars, syncVars, directoryUUIDToNameCache, parent, toastVars,
                   location, calls, nextId>>

\* the listing the drive list loads for a directory
listingOf(directory) ==
    CASE directory = "root" -> <<[uuid |-> 1, name |-> "a", selected |-> FALSE],
                                 [uuid |-> 2, name |-> "b", selected |-> FALSE],
                                 [uuid |-> 3, name |-> "c", selected |-> FALSE]>>
      [] directory = "sub" -> <<[uuid |-> 4, name |-> "a", selected |-> FALSE]>>

\* the user opens another directory: useRouteParent() changes and the drive list
\* shows the listing of that directory
openDirectory(directory) ==
    /\ Includes(location, "drive")
    /\ directory # parent
    /\ parent' = directory
    /\ items' = listingOf(directory)
    /\ rejected' = 0
    /\ UNCHANGED <<copyVars, linkVars, syncVars, directoryUUIDToNameCache, toastVars, location,
                   calls, nextId>>

(***************************************************************************)
(* Directory public-link panel                                             *)
(***************************************************************************)
\* DirLinkStatusResponse of the n-th link created for the directory
linkStatus(n, expirationText, download, hasPassword) ==
    [exists |-> TRUE, uuid |-> n, key |-> n, expirationText |-> expirationText,
     downloadBtn |-> download, password |-> hasPassword]

noLink == [exists |-> FALSE]

\* worker.decryptDirectoryLinkKey({ key })
decryptDirectoryLinkKey(key) == key + 100

\* <SelectItem value=...>label</SelectItem>
selectItemValue(label) ==
    CASE label = "1h" -> "1h"
      [] label = "6h" -> "6h"
      [] label = "1d" -> "1d"
      [] label = "3d" -> "3d"
      [] label = "7d" -> "7d"
      [] label = "14d" -> "14d"
      [] label = "30d" -> "14d"
      [] label = "never" -> "14d"

\* the outcome of query.refetch() on the server state link: it resolves also when
\* the fetch fails (the query observer swallows the error), keeping the previous data
fetched(ok, link) ==
    IF ok THEN [isSuccess |-> TRUE, data |-> <<link>>]
          ELSE [isSuccess |-> FALSE, data |-> query.data]

\* query.isSuccess and query.data are dependencies of the effect
afterFetch(ok, link) ==
    /\ query' = fetched(ok, link)
    /\ effectPending' = (effectPending \/ query' # query)

\* the first fetch of useQuery, and its refetches after a failed fetch
queryFetch ==
    /\ ~query.isSuccess
    /\ afterFetch(TRUE, remoteLink)
    /\ rejected' = 0
    /\ UNCHANGED <<copyVars, syncVars, driveVars, remoteLink, status, saving, open, showSave, stagedVars,
                   decryptedLinkKey, timers, decrypting, toastVars, location, calls, nextId>>

\* useEffect(() => { if (query.isSuccess) {...} }, [query.isSuccess, query.data, decryptLinkKey, setShowSave])
\* decryptLinkKey is the callback of the render that scheduled the effect: it holds
\* the status of before setStatus, and it changes (re-running the effect) with status
queryEffect ==
    /\ effectPending
    /\ IF query.isSuccess
       THEN /\ status' = query.data
            /\ expiration' = IF query.data[1].exists THEN query.data[1].expirationText ELSE "never"
            /\ downloadBtn' = IF query.data[1].exists THEN query.data[1].downloadBtn = 1 ELSE TRUE
            /\ showSave' = query.data[1].exists
            /\ IF status # <<>> /\ status[1].exists
               THEN /\ decrypting[status[1].key] < MaxDecrypts
                    /\ decrypting' = [decrypting EXCEPT ![status[1].key] = @ + 1]
               ELSE UNCHANGED decrypting
            /\ effectPending' = (status' # status)
       ELSE /\ effectPending' = FALSE
            /\ UNCHANGED <<status, expiration, downloadBtn, showSave, decrypting>>
    /\ rejected' = 0
    /\ UNCHANGED <<copyVars, syncVars, driveVars, remoteLink, query, saving, open, password, showPassword,
                   decryptedLinkKey, timers, toastVars, location, calls, nextId>>

\* worker.decryptDirectoryLinkKey resolves in decryptLinkKey
decryptResolve(key) ==
    /\ decrypting[key] > 0
    /\ decrypting' = [decrypting EXCEPT ![key] = @ - 1]
    /\ decryptedLinkKey' = decryptDirectoryLinkKey(key)
    /\ rejected' = 0
    /\ UNCHANGED <<copyVars, syncVars, driveVars, remoteLink, query, status, saving, open, showSave,
                   stagedVars, effectPending, timers, toastVars, location, calls, nextId>>

\* worker.decryptDirectoryLinkKey rejects in decryptLinkKey
decryptReject(key) ==
    /\ decrypting[key] > 0
    /\ decrypting' = [decrypting EXCEPT ![key] = @ - 1]
    /\ errorToasts' = errorToasts + 1
    /\ rejected' = 0
    /\ UNCHANGED <<copyVars, syncVars, driveVars, remoteLink, query, status, saving, open, showSave,
                   stagedVars, decryptedLinkKey, effectPending, timers, toasts, location,
                   calls, nextId>>

\* toggleStatus up to its first await
toggleStatus(checked) ==
    /\ nextId <= MaxCalls
    /\ nextId' = nextId + 1
    /\ IF status = <<>> \/ saving
       THEN UNCHANGED <<saving, toasts, timers, calls>>
       ELSE /\ saving' = TRUE
            /\ IF checked
               THEN /\ toasts' = loadingToast(toasts, nextId)
                    /\ calls' = calls \cup {[id |-> nextId, op |-> "toggleStatus",
                                             await |-> "enablePublicLink", acked |-> FALSE,
                                             checked |-> checked,
                                             links |-> Includes(location, "links")]}
                    /\ UNCHANGED timers
               ELSE IF ~status[1].exists
               THEN /\ toasts' = dismiss(loadingToast(toasts, nextId), nextId)
                    /\ timers' = timers + 1
                    /\ UNCHANGED calls
               ELSE /\ toasts' = loadingToast(toasts, nextId)
                    /\ calls' = calls \cup {[id |-> nextId, op |-> "toggleStatus",
                                             await |-> "disablePublicLink", acked |-> FALSE,
                                             checked |-> checked,
                                             links |-> Includes(location, "links")]}
                    /\ UNCHANGED timers
    /\ rejected' = 0
    /\ UNCHANGED <<copyVars, syncVars, driveVars, remoteLink, query, status, open, showSave, stagedVars,
                   decryptedLinkKey, effectPending, decrypting, errorToasts, location>>

\* <Switch checked={status.exists} onCheckedChange={toggleStatus} disabled={saving} />,
\* rendered only when the panel is shown, status is loaded and saving is false; a click
\* on the controlled switch passes the negation of the value it shows
onCheckedChange(checked) ==
    /\ open /\ status # <<>> /\ ~saving
    /\ checked = ~status[1].exists
    /\ toggleStatus(checked)

\* worker.enablePublicLink resolves: the server holds a link for the directory
enablePublicLinkResolve(c, n) ==
    /\ c.op = "toggleStatus" /\ c.await = "enablePublicLink"
    /\ remoteLink' = IF remoteLink.exists THEN remoteLink ELSE linkStatus(n, "never", 1, FALSE)
    /\ calls' = (calls \ {c}) \cup {[c EXCEPT !.await = "refetch", !.acked = TRUE]}
    /\ rejected' = 0
    /\ UNCHANGED <<copyVars, syncVars, driveVars, query, status, saving, open, showSave, stagedVars,
                   decryptedLinkKey, effectPending, timers, decrypting, toastVars, location,
                   nextId>>

\* worker.disablePublicLink resolves: the server holds no link for the directory
disablePublicLinkResolve(c) ==
    /\ c.op = "toggleStatus" /\ c.await = "disablePublicLink"
    /\ remoteLink' = noLink
    /\ calls' = (calls \ {c}) \cup {[c EXCEPT !.await = "refetch", !.acked = TRUE]}
    /\ rejected' = 0
    /\ UNCHANGED <<copyVars, syncVars, driveVars, query, status, saving, open, showSave, stagedVars,
                   decryptedLinkKey, effectPending, timers, decrypting, toastVars, location,
                   nextId>>

\* worker.enablePublicLink or worker.disablePublicLink rejects: catch and finally
toggleStatusReject(c) ==
    /\ c.op = "toggleStatus" /\ c.await \in {"enablePublicLink", "disablePublicLink"}
    /\ errorToasts' = errorToasts + 1
    /\ toasts' = dismiss(toasts, c.id)
    /\ timers' = timers + 1
    /\ calls' = calls \ {c}
    /\ rejected' = c.id
    /\ UNCHANGED <<copyVars, syncVars, driveVars, remoteLink, query, status, saving, open, showSave,
                   stagedVars, decryptedLinkKey, effectPending, decrypting, location, nextId>>

\* variant: the filter keeps the item instead of dropping it
withoutItemInverted(prev, uuid) == Filter(LAMBDA prevItem : prevItem.uuid = uuid, prev)

\* setItems(prev => prev.filter(prevItem => prevItem.uuid !== item.uuid))
withoutItem(prev, uuid) == Filter(LAMBDA prevItem : prevItem.uuid # uuid, prev)

\* query.refetch() resolves in toggleStatus; the rest of the try block and finally
toggleStatusRefetched(c, ok) ==
    /\ c.op = "toggleStatus" /\ c.await = "refetch"
    /\ afterFetch(ok, remoteLink)
    /\ IF c.links
       THEN /\ items' = withoutItem(items, PanelItem)
            /\ open' = FALSE
       ELSE UNCHANGED <<items, open>>
    /\ toasts' = dismiss(toasts, c.id)
    /\ timers' = timers + 1
    /\ calls' = calls \ {c}
    /\ rejected' = 0
    /\ UNCHANGED <<copyVars, syncVars, directoryUUIDToNameCache, parent, remoteLink, status, saving, showSave,
                   stagedVars, decryptedLinkKey, decrypting, errorToasts, location, nextId>>

\* setTimeout(() => setSaving(false), 100) fires
savingTimeout ==
    /\ timers > 0
    /\ timers' = timers - 1
    /\ saving' = FALSE
    /\ rejected' = 0
    /\ UNCHANGED <<copyVars, syncVars, driveVars, remoteLink, query, status, open, showSave, stagedVars,
                   decryptedLinkKey, effectPending, decrypting, toastVars, location, calls,
                   nextId>>

\* variant: save does not look at the saving flag
saveUnguarded ==
    /\ nextId <= MaxCalls
    /\ nextId' = nextId + 1
    /\ IF status = <<>> \/ ~status[1].exists
       THEN UNCHANGED <<saving, toasts, calls>>
       ELSE /\ saving' = TRUE
            /\ toasts' = loadingToast(toasts, nextId)
            /\ calls' = calls \cup {[id |-> nextId, op |-> "save",
                                     await |-> "editPublicLink", acked |-> FALSE,
                                     linkUUID |-> status[1].uuid,
                                     enableDownload |-> downloadBtn,
                                     expiration |-> expiration,
                                     password |-> password]}
    /\ rejected' = 0
    /\ UNCHANGED <<copyVars, syncVars, driveVars, remoteLink, query, status, open, showSave,
                   stagedVars, decryptedLinkKey, effectPending, timers, decrypting, errorToasts,
                   location>>

\* save up to its first await
save ==
    /\ nextId <= MaxCalls
    /\ nextId' = nextId + 1
    /\ IF status = <<>> \/ ~status[1].exists \/ saving
       THEN UNCHANGED <<saving, toasts, calls>>
       ELSE /\ saving' = TRUE
            /\ toasts' = loadingToast(toasts, nextId)
            /\ calls' = calls \cup {[id |-> nextId, op |-> "save",
                                     await |-> "editPublicLink", acked |-> FALSE,
                                     linkUUID |-> status[1].uuid,
                                     enableDownload |-> downloadBtn,
                                     expiration |-> expiration,
                                     password |-> password]}
    /\ rejected' = 0
    /\ UNCHANGED <<copyVars, syncVars, driveVars, remoteLink, query, status, open, showSave, stagedVars,
                   decryptedLinkKey, effectPending, timers, decrypting, errorToasts, location>>

\* eventEmitter.on("savePublicLink", () => { save() })
EmitSavePublicLink ==
    /\ open
    /\ save

\* worker.editPublicLink resolves: the server holds the edited link
editPublicLinkResolve(c) ==
    /\ c.op = "save" /\ c.await = "editPublicLink"
    /\ remoteLink' = IF remoteLink.exists /\ remoteLink.uuid = c.linkUUID
                     THEN linkStatus(c.linkUUID, c.expiration,
                                     IF c.enableDownload THEN 1 ELSE 0,
                                     c.password # "")
                     ELSE remoteLink
    /\ calls' = (calls \ {c}) \cup {[c EXCEPT !.await = "refetch", !.acked = TRUE]}
    /\ rejected' = 0
    /\ UNCHANGED <<copyVars, syncVars, driveVars, query, status, saving, open, showSave, stagedVars,
                   decryptedLinkKey, effectPending, timers, decrypting, toastVars, location,
                   nextId>>

\* worker.editPublicLink rejects: catch and finally
editPublicLinkReject(c) ==
    /\ c.op = "save" /\ c.await = "editPublicLink"
    /\ errorToasts' = errorToasts + 1
    /\ toasts' = dismiss(toasts, c.id)
    /\ saving' = FALSE
    /\ calls' = calls \ {c}
    /\ rejected' = c.id
    /\ UNCHANGED <<copyVars, syncVars, driveVars, remoteLink, query, status, open, showSave, stagedVars,
                   decryptedLinkKey, effectPending, timers, decrypting, location, nextId>>

\* query.refetch() resolves in save; finally
saveRefetched(c, ok) ==
    /\ c.op = "save" /\ c.await = "refetch"
    /\ afterFetch(ok, remoteLink)
    /\ toasts' = dismiss(toasts, c.id)
    /\ saving' = FALSE
    /\ calls' = calls \ {c}
    /\ rejected' = 0
    /\ UNCHANGED <<copyVars, syncVars, driveVars, remoteLink, status, open, showSave, stagedVars,
                   decryptedLinkKey, timers, decrypting, errorToasts, location, nextId>>

\* the staged fields are rendered when status.exists and saving is false
stagedShown == open /\ status # <<>> /\ ~saving /\ status[1].exists

\* <Input value={password} onChange={onPasswordChange} />
onPasswordChange(value) ==
    /\ stagedShown
    /\ password' = value
    /\ rejected' = 0
    /\ UNCHANGED <<copyVars, syncVars, driveVars, remoteLink, query, status, saving, open, showSave,
                   expiration, showPassword, downloadBtn, decryptedLinkKey, effectPending,
                   timers, decrypting, toastVars, location, calls, nextId>>

\* <Select onValueChange={onExpirationChange}> on the item labelled label
onExpirationChange(label) ==
    /\ stagedShown
    /\ expiration' = selectItemValue(label)
    /\ rejected' = 0
    /\ UNCHANGED <<copyVars, syncVars, driveVars, remoteLink, query, status, saving, open, showSave,
                   password, showPassword, downloadBtn, decryptedLinkKey, effectPending,
                   timers, decrypting, toastVars, location, calls, nextId>>

\* <Switch checked={downloadBtn} onCheckedChange={toggleDownloadButton} />
toggleDownloadButton(checked) ==
    /\ stagedShown
    /\ downloadBtn' = checked
    /\ rejected' = 0
    /\ UNCHANGED <<copyVars, syncVars, driveVars, remoteLink, query, status, saving, open, showSave,
                   password, expiration, showPassword, decryptedLinkKey, effectPending,
                   timers, decrypting, toastVars, location, calls, nextId>>

\* onPasswordToggle={toggleShowPassword}
toggleShowPassword ==
    /\ stagedShown
    /\ showPassword' = ~showPassword
    /\ rejected' = 0
    /\ UNCHANGED <<copyVars, syncVars, driveVars, remoteLink, query, status, saving, open, showSave,
                   password, expiration, downloadBtn, decryptedLinkKey, effectPending,
                   timers, decrypting, toastVars, location, calls, nextId>>

\* PUBLIC_LINK_BASE_URL.split("/#/d/").join("/#/f/") + status.uuid + "#" + decryptedLinkKey,
\* as the link uuid and the secret suffix it is made of
linkText(uuid, key) == [uuid |-> uuid, suffix |-> key]

\* copyLink up to its await
copyLink ==
    /\ nextId <= MaxCalls
    /\ nextId' = nextId + 1
    /\ IF status = <<>> \/ ~status[1].exists \/ decryptedLinkKey = NoKey
       THEN UNCHANGED calls
       ELSE calls' = calls \cup {[id |-> nextId, op |-> "copyLink",
                                   await |-> "writeText", acked |-> FALSE,
                                   text |-> linkText(status[1].uuid, decryptedLinkKey)]}
    /\ rejected' = 0
    /\ UNCHANGED <<copyVars, linkVars, syncVars, driveVars, toastVars, location>>

\* <Button onClick={copyLink}>, rendered when status.exists and saving is false
onClickCopyLink ==
    /\ stagedShown
    /\ copyLink

\* navigator.clipboard.writeText resolves
writeTextResolve(c) ==
    /\ c.op = "copyLink" /\ c.await = "writeText"
    /\ clipboard' = <<c.text>>
    /\ successToasts' = successToasts + 1
    /\ calls' = calls \ {c}
    /\ rejected' = 0
    /\ UNCHANGED <<linkVars, syncVars, driveVars, toastVars, location, nextId>>

\* navigator.clipboard.writeText rejects: catch
writeTextReject(c) ==
    /\ c.op = "copyLink" /\ c.await = "writeText"
    /\ errorToasts' = errorToasts + 1
    /\ calls' = calls \ {c}
    /\ rejected' = c.id
    /\ UNCHANGED <<copyVars, linkVars, syncVars, driveVars, toasts, location, nextId>>

(***************************************************************************)
(* The user moves to another route                                         *)
(***************************************************************************)
navigateTo(route) ==
    /\ route # location
    /\ location' = route
    /\ rejected' = 0
    /\ UNCHANGED <<copyVars, linkVars, syncVars, driveVars, toastVars, calls, nextId>>

(***************************************************************************)
(* Specifications                                                          *)
(***************************************************************************)
Passwords == {"", "pw"}
ExpirationLabels == {"1h", "6h", "1d", "3d", "7d", "14d", "30d", "never"}
StagedLabels == {"1h", "never"}

\* the desktop configuration holding the pairs of present, in the order of their uuids
configOf(present, flags) ==
    [syncConfig |-> [syncPairs |-> Filter(LAMBDA pair : pair.uuid \in present,
                                          [i \in SyncUUIDs |->
                                              [uuid |-> i, paused |-> flags[i], name |-> "pair"]]),
                     rest |-> "syncConfig"],
     rest |-> "desktopConfig"]

InitOf(present, flags, selected) ==
    /\ desktopConfig = configOf(present, flags)
    /\ remotePaused = flags
    /\ selectedSync = selected
    /\ changing = FALSE
    /\ remoteRemoved = {}
    /\ location \in Routes
    /\ calls = {}
    /\ nextId = 1
    /\ toasts = [id \in 1..MaxCalls |-> 0]
    /\ errorToasts = 0
    /\ items = <<[uuid |-> 1, name |-> "a", selected |-> TRUE],
                 [uuid |-> 2, name |-> "b", selected |-> FALSE],
                 [uuid |-> 3, name |-> "c", selected |-> FALSE]>>
    /\ directoryUUIDToNameCache = [u \in ItemUUIDs |-> ""]
    /\ parent = "root"
    /\ remoteLink = linkStatus(1, "never", 1, FALSE)
    /\ query = [isSuccess |-> FALSE, data |-> <<>>]
    /\ status = <<>>
    /\ saving = FALSE
    /\ open = TRUE
    /\ showSave = FALSE
    /\ password = ""
    /\ expiration = "never"
    /\ showPassword = FALSE
    /\ decryptedLinkKey = NoKey
    /\ downloadBtn = TRUE
    /\ effectPending = FALSE
    /\ timers = 0
    /\ decrypting = [key \in LinkKeys |-> 0]
    /\ clipboard = <<>>
    /\ successToasts = 0
    /\ rejected = 0

\* every pair is configured and running, the first one is selected
Init == InitOf(SyncUUIDs, [i \in SyncUUIDs |-> FALSE], 1)

\* any configuration of pairs, one of them selected or none
InitSync ==
    \E present \in SUBSET SyncUUIDs, flags \in [SyncUUIDs -> BOOLEAN],
       selected \in SyncUUIDs \cup {NoSync} :
        /\ selected \in present \cup {NoSync}
        /\ \A i \in SyncUUIDs \ present : ~flags[i]
        /\ InitOf(present, flags, selected)

\* the sync context menus
NextSync ==
    \/ \E uuid \in SyncUUIDs : MenuTogglePause(uuid)
    \/ \E uuid \in SyncUUIDs : EmitToggleSyncPause(uuid)
    \/ \E c \in calls : syncUpdatePausedResolve(c)
    \/ \E c \in calls : syncUpdatePausedReject(c)
    \/ \E c \in calls : syncResetCacheResolve(c)
    \/ \E c \in calls : syncResetCacheReject(c)
    \/ \E uuid \in SyncUUIDs : MenuDeleteSync(uuid)
    \/ \E uuid \in SyncUUIDs : EmitDeleteSync(uuid)
    \/ \E c \in calls : confirmDialogCancel(c)
    \/ \E c \in calls : confirmDialogContinue(c)
    \/ \E c \in calls : syncUpdateRemovedResolve(c)
    \/ \E c \in calls : syncUpdateRemovedReject(c)

\* the drive list context menu
NextDrive ==
    \/ MenuCreateDirectory
    \/ EmitCreateFolderTrigger
    \/ \E c \in calls : inputDialogCancel(c)
    \/ \E c \in calls, value \in InputValues : inputDialogContinue(c, value)
    \/ \E c \in calls, uuid \in ItemUUIDs, name \in InputValues :
          createDirectoryResolve(c, [uuid |-> uuid, name |-> name, selected |-> FALSE])
    \/ \E c \in calls : createDirectoryReject(c)
    \/ onOpenChange

\* the public-link panel: the query, its effect and the two handlers
NextLink ==
    \/ queryFetch
    \/ queryEffect
    \/ \E key \in LinkKeys : decryptResolve(key)
    \/ \E key \in LinkKeys : decryptReject(key)
    \/ \E checked \in BOOLEAN : onCheckedChange(checked)
    \/ \E c \in calls, n \in LinkKeys : enablePublicLinkResolve(c, n)
    \/ \E c \in calls : disablePublicLinkResolve(c)
    \/ \E c \in calls : toggleStatusReject(c)
    \/ \E c \in calls, ok \in BOOLEAN : toggleStatusRefetched(c, ok)
    \/ savingTimeout
    \/ EmitSavePublicLink
    \/ \E c \in calls : editPublicLinkResolve(c)
    \/ \E c \in calls : editPublicLinkReject(c)
    \/ \E c \in calls, ok \in BOOLEAN : saveRefetched(c, ok)

\* the staged fields of the public-link panel
NextStaged ==
    \/ \E value \in Passwords : onPasswordChange(value)
    \/ \E label \in StagedLabels : onExpirationChange(label)
    \/ \E checked \in BOOLEAN : toggleDownloadButton(checked)
    \/ toggleShowPassword

\* the copy button of the public-link panel
NextCopy ==
    \/ onClickCopyLink
    \/ \E c \in calls : writeTextResolve(c)
    \/ \E c \in calls : writeTextReject(c)

\* the user moves between the directories of the drive
NextParent == \E directory \in Parents : openDirectory(directory)

NextRoute == \E route \in Routes : navigateTo(route)

\* the components of the page shown: the sync list with its context menus on the syncs
\* route, the drive listing with its context menu and link panel on the other routes
Next ==
    \/ Includes(location, "syncs") /\ NextSync
    \/ ~Includes(location, "syncs") /\ (NextDrive \/ NextLink)

\* the handlers that change the mirrored entities, on the page the run starts on
Spec == Init /\ [][Next]_vars

\* the sync context menus, from any configuration of pairs
SpecSync == InitSync /\ [][NextSync]_vars

\* the drive list context menu, the user moving between routes
SpecDrive == Init /\ [][NextDrive \/ NextRoute]_vars

\* the drive list context menu, the user moving between directories
SpecParent == Init /\ [][NextDrive \/ NextParent]_vars

\* the public-link panel, the user moving between routes
SpecLink == Init /\ [][NextLink \/ NextRoute]_vars

\* the public-link panel, the user copying the link
SpecCopy == Init /\ [][NextLink \/ NextCopy]_vars

\* the public-link panel, the user editing the staged fields
SpecStaged == Init /\ [][NextLink \/ NextStaged]_vars

(***************************************************************************)
(* Properties                                                              *)
(***************************************************************************)
ids(S) == {c.id : c \in S}

Prompts == {"showConfirmDialog", "showInputDialog"}

RemoteMutations == {"syncUpdatePaused", "syncResetCache", "syncUpdateRemoved", "createDirectory",
                    "enablePublicLink", "disablePublicLink", "editPublicLink"}

\* the invocation c runs its last segment in this step
Ends(c) == c \in calls /\ c.id \notin ids(calls')

\* the invocation c starts or goes on to another await in this step
Suspends(c) == c \in calls' /\ c \notin calls

\* the records of the pairs with this uuid
pairsOf(pairs, uuid) == Filter(LAMBDA pair : pair.uuid = uuid, pairs)

\* a listing without its transient selected flags
entries(list) == [i \in 1..Len(list) |-> [uuid |-> list[i].uuid, name |-> list[i].name]]

\* C1: while a togglePause (or deleteSync) on a sync pair is doing its remote work,
\* no second invocation of the same action on the same pair gets to its remote work.
C1_ReentrantIgnored ==
    \A c1, c2 \in calls :
        ( /\ c1.op \in {"togglePause", "deleteSync"}
          /\ c2.op = c1.op
          /\ c2.uuid = c1.uuid
          /\ c1.await \notin Prompts
          /\ c2.await \notin Prompts ) => c1 = c2

\* C2: the local update of every successful togglePause sets the paused flag of the
\* pair to the negation of the value it held just before the update, which is also
\* the value that invocation sent to syncUpdatePaused.
C2_ToggleNegates ==
    [][\A c \in calls :
          ( /\ c.op = "togglePause"
            /\ c.await = "syncResetCache"
            /\ Ends(c)
            /\ rejected' = 0
            /\ pairsOf(SyncPairs, c.uuid) # <<>> )
          => LET before == pairsOf(SyncPairs, c.uuid)[1].paused
                 after == pairsOf(desktopConfig'.syncConfig.syncPairs, c.uuid)[1].paused
             IN  after = ~before /\ after = c.paused]_vars

\* C3: an invocation whose remote call rejects changes none of the local mirrors
\* (sync pairs, selected sync, drive items, link status), in none of its segments,
\* and shows exactly one error toast, in its last segment.
C3_RejectionLeavesMirrors ==
    [][ /\ (\E c \in calls' : Suspends(c))
            => /\ UNCHANGED <<desktopConfig, selectedSync, items, status>>
               /\ errorToasts' = errorToasts
               /\ rejected' = 0
        /\ rejected' # 0
            => /\ \E c \in calls : c.id = rejected' /\ Ends(c) /\ c.await \in RemoteMutations
               /\ UNCHANGED <<desktopConfig, selectedSync, items, status>>
               /\ errorToasts' = errorToasts + 1 ]_vars

C3_Witness ==
    /\ rejected # 0
    /\ errorToasts = 1
    /\ remotePaused[1]
    /\ pairsOf(SyncPairs, 1) # <<>>
    /\ ~pairsOf(SyncPairs, 1)[1].paused

\* C4: the local update of a successful deleteSync on X removes the record of X from
\* the sync-pair list and nothing else, keeping the order of the others, and leaves
\* the selected sync not referring to X.
C4_DeleteRemovesOne ==
    [][\A c \in calls :
          (c.op = "deleteSync" /\ c.await = "syncUpdateRemoved" /\ Ends(c) /\ rejected' = 0)
          => LET old == SyncPairs
                 new == desktopConfig'.syncConfig.syncPairs
             IN  /\ selectedSync' # c.uuid
                 /\ \A i \in 1..Len(new) : new[i].uuid # c.uuid
                 /\ \/ new = old
                    \/ \E i \in 1..Len(old) :
                          /\ old[i].uuid = c.uuid
                          /\ new = SubSeq(old, 1, i - 1) \o SubSeq(old, i + 1, Len(old))
                 /\ desktopConfig' = [desktopConfig EXCEPT !.syncConfig.syncPairs = new]]_vars

C4_Witness ==
    \E uuid \in remoteRemoved :
        /\ pairsOf(SyncPairs, uuid) = <<>>
        /\ Len(SyncPairs) > 0
        /\ selectedSync = NoSync

\* C5: after a successful createDirectory the listing ends with the created item,
\* which is the only record of its uuid and the only record of its name up to case,
\* and the earlier records that collide with it on neither are all kept, in order.
C5_CreateKeepsOne ==
    [][\A c \in calls :
          (c.op = "createDirectory" /\ c.await = "createDirectory" /\ Ends(c) /\ rejected' = 0)
          => LET old == items
                 new == items'
                 N == new[Len(new)]
                 kept == {i \in 1..Len(old) : /\ old[i].uuid # N.uuid
                                              /\ toLowerCase(old[i].name) # toLowerCase(N.name)}
             IN  /\ Len(new) >= 1
                 /\ N.name = c.value
                 /\ directoryUUIDToNameCache'[N.uuid] = c.value
                 /\ Cardinality({i \in 1..Len(new) : new[i].uuid = N.uuid}) = 1
                 /\ Cardinality({i \in 1..Len(new) :
                                    toLowerCase(new[i].name) = toLowerCase(N.name)}) = 1
                 /\ Len(new) = Cardinality(kept) + 1
                 /\ \A i \in kept : \E j \in 1..(Len(new) - 1) : new[j] = old[i]
                 /\ \A i1, i2 \in kept : i1 < i2 =>
                        \E j1, j2 \in 1..(Len(new) - 1) :
                            j1 < j2 /\ new[j1] = old[i1] /\ new[j2] = old[i2]]_vars

C5_Witness ==
    /\ Len(items) = 3
    /\ items[1].uuid = 2 /\ items[2].uuid = 3
    /\ items[3] = [uuid |-> 4, name |-> "A", selected |-> FALSE]

\* C6: a step changes a mirrored entity (sync pairs, selected sync, the records of
\* the drive listing, the fetched link status) only as the last segment of an
\* invocation one of whose remote mutation calls has resolved; the selected flags of
\* the items are exempt, and so is the fetch the query does by itself.
C6_RemoteFirst ==
    [][ /\ ( \/ desktopConfig' # desktopConfig
             \/ selectedSync' # selectedSync
             \/ entries(items') # entries(items) )
            => \E c \in calls :
                  /\ Ends(c)
                  /\ rejected' = 0
                  /\ c.acked \/ c.await \in RemoteMutations
        /\ query' # query
            => \/ \E c \in calls : Ends(c) /\ rejected' = 0 /\ c.acked
               \/ ~query.isSuccess /\ calls' = calls /\ nextId' = nextId
        /\ status' # status
            => status' = query.data /\ calls' = calls /\ nextId' = nextId ]_vars

C6_Witness ==
    /\ \E i \in 1..Len(items) : items[i].uuid = 4
    /\ calls = {}
    /\ errorToasts = 0

\* C7: the loading toast of an invocation is on screen exactly while the invocation
\* is past its prompt and not finished: no toast is left over, none is dismissed
\* twice, and the toasts of concurrent invocations do not affect each other.
C7_ToastsScoped ==
    \A id \in 1..MaxCalls :
        toasts[id] = IF \E c \in calls : c.id = id /\ c.await \notin Prompts THEN 1 ELSE 0

C7_Witness ==
    /\ \E c \in calls : c.op = "toggleStatus" /\ toasts[c.id] = 1
    /\ \E c \in calls : c.op = "createDirectory" /\ toasts[c.id] = 1

\* C8: an invocation of deleteSync or createDirectory whose prompt is cancelled does
\* nothing but open and close the prompt: no remote call, no toast of any kind and no
\* change of the local state.
C8_CancelNoEffect ==
    [][\A c \in calls \cup calls' :
          ( /\ c.await \in Prompts
            /\ Suspends(c) \/ Ends(c) )
          => /\ UNCHANGED <<syncVars, driveVars, linkVars, toastVars, location>>
             /\ rejected' = 0
             /\ calls' \in {calls \cup {c}, calls \ {c}}]_vars

C8_Witness ==
    /\ nextId = 3
    /\ calls = {}
    /\ errorToasts = 0
    /\ remoteRemoved = {}
    /\ Len(SyncPairs) = MaxSyncs
    /\ entries(items) = <<[uuid |-> 1, name |-> "a"], [uuid |-> 2, name |-> "b"],
                          [uuid |-> 3, name |-> "c"]>>
    /\ directoryUUIDToNameCache = [u \in ItemUUIDs |-> ""]
    /\ ~query.isSuccess

\* C9: a togglePause or deleteSync invoked while the local list holds no record of
\* its sync pair does nothing: it opens no prompt and makes no remote call.
C9_AbsentRecordNoOp ==
    [][\A c \in calls' :
          (c.op \in {"togglePause", "deleteSync"} /\ c.id \notin ids(calls))
          => pairsOf(SyncPairs, c.uuid) # <<>>]_vars

\* C10: when a toggleStatus(false) invoked on a links route has had its
\* disablePublicLink resolved, it ends with the item removed from the drive listing
\* and the panel closed.
C10_DisableInLinks ==
    [][\A c \in calls :
          ( /\ c.op = "toggleStatus"
            /\ ~c.checked
            /\ c.links
            /\ c.await = "refetch"
            /\ Ends(c) )
          => /\ \A i \in 1..Len(items') : items'[i].uuid # PanelItem
             /\ open' = FALSE]_vars

C10_Witness ==
    /\ ~remoteLink.exists
    /\ ~open
    /\ \A i \in 1..Len(items) : items[i].uuid # PanelItem
    /\ Len(items) = 2

\* C11: when the panel comes back to an enabled link after it showed the link
\* disabled (disable, then enable again), the staged password, expiration and download
\* flag it holds are the defaults / the freshly fetched values, so a following save
\* cannot send what was staged before the disable.
C11_DisableDiscardsStaged ==
    [][( /\ status # <<>> /\ ~status[1].exists
         /\ status' # <<>> /\ status'[1].exists )
       => /\ password' = ""
          /\ expiration' = status'[1].expirationText
          /\ downloadBtn' = (status'[1].downloadBtn = 1)]_vars

\* C12: the secret suffix of the link text the panel shows for a loaded enabled
\* status, and of the text copyLink has written, is the decryption of the key of the
\* link it is shown or copied with; until that decryption completes the suffix is
\* empty, also when decryptions complete out of order or fail.
C12_ShownKeyIsCurrent ==
    /\ (stagedShown /\ decryptedLinkKey # NoKey)
        => decryptedLinkKey = decryptDirectoryLinkKey(status[1].key)
    /\ clipboard # <<>>
        => clipboard[1].suffix =
               decryptDirectoryLinkKey(linkStatus(clipboard[1].uuid, "never", 1, FALSE).key)

\* C13: the local update of a successful togglePause on X changes nothing but the
\* paused field of the record of X: the sync-pair list keeps its length and order,
\* the records of the other pairs and the other fields of X's record are unchanged,
\* and so are the selected sync and the rest of the desktop configuration.
C13_ToggleFrame ==
    [][\A c \in calls :
          (c.op = "togglePause" /\ c.await = "syncResetCache" /\ Ends(c) /\ rejected' = 0)
          => LET old == SyncPairs
                 new == desktopConfig'.syncConfig.syncPairs
             IN  /\ Len(new) = Len(old)
                 /\ \A i \in 1..Len(old) :
                        IF old[i].uuid = c.uuid
                        THEN new[i] = [old[i] EXCEPT !.paused = new[i].paused]
                        ELSE new[i] = old[i]
                 /\ selectedSync' = selectedSync
                 /\ desktopConfig' = [desktopConfig EXCEPT !.syncConfig.syncPairs = new]]_vars

\* a toggle of pair 1 started while the pair was running is still in flight, and the
\* pair is paused by now: another toggle of it has succeeded since
C13_Witness ==
    /\ \E c \in calls : c.op = "togglePause" /\ c.uuid = 1 /\ c.paused
    /\ Len(SyncPairs) = 2
    /\ SyncPairs[1].uuid = 1 /\ SyncPairs[1].paused
    /\ SyncPairs[2].uuid = 2 /\ ~SyncPairs[2].paused
    /\ selectedSync = 2

\* C14: whenever no sync action is in flight, the paused flag of every pair of the
\* local list equals the paused value the desktop side accepted last for that pair.
C14_MirrorAtQuiescence ==
    (\A c \in calls : c.op \notin {"togglePause", "deleteSync"})
    => \A i \in 1..Len(SyncPairs) : SyncPairs[i].paused = remotePaused[SyncPairs[i].uuid]

\* the invocations of the two handlers that share the saving flag
LinkMutations == {c \in calls : c.op \in {"toggleStatus", "save"}}

\* C15: at most one toggleStatus or save invocation of the panel is past its guard at
\* any time; the saving flag is set while one is in flight and until the deferred
\* reset of toggleStatus has run; and an invocation made in that time returns without
\* calling enablePublicLink, disablePublicLink or editPublicLink.
C15_SavingExcludes ==
    /\ [](/\ Cardinality(LinkMutations) <= 1
          /\ (LinkMutations # {} \/ timers > 0) => saving)
    /\ [][\A c \in calls' :
              (c.op \in {"toggleStatus", "save"} /\ c.id \notin ids(calls))
              => ~saving /\ timers = 0 /\ LinkMutations = {}]_vars

\* the second invocation came and went while the first was awaiting its mutation call
C15_Witness ==
    \E c \in calls :
        /\ calls = {c}
        /\ c.id = 1
        /\ c.await \in {"enablePublicLink", "disablePublicLink", "editPublicLink"}
        /\ nextId = 3

\* C16: the local update of a successful deleteSync on a pair X of the list leaves
\* the selected sync as it is when it does not refer to X.
C16_SelectionKept ==
    [][\A c \in calls :
          ( /\ c.op = "deleteSync" /\ c.await = "syncUpdateRemoved"
            /\ Ends(c) /\ rejected' = 0
            /\ pairsOf(SyncPairs, c.uuid) # <<>>
            /\ selectedSync # c.uuid )
          => selectedSync' = selectedSync]_vars

\* C17: a toggleStatus(true) whose enablePublicLink has resolved ends without removing
\* the item from the drive listing and without closing the panel, on every route.
C17_EnableKeepsItem ==
    [][\A c \in calls :
          (c.op = "toggleStatus" /\ c.checked /\ c.await = "refetch" /\ Ends(c))
          => UNCHANGED <<items, open>>]_vars

\* C18: choosing a label of the expiration selector stages a value that no other label
\* of the selector stages, and save passes the staged value to editPublicLink: each
\* label commits its own value.
C18_LabelsCommitOwnValue ==
    [][ /\ \A label \in ExpirationLabels :
              onExpirationChange(label)
              => \A other \in ExpirationLabels \ {label} : expiration' # selectItemValue(other)
        /\ \A c \in calls' :
              (c.op = "save" /\ c.id \notin ids(calls)) => c.expiration = expiration ]_vars

\* the sync invocations that have started their remote work and not finished
SyncBusy == {c \in calls : c.op \in {"togglePause", "deleteSync"} /\ c.await \notin Prompts}

\* C19: the shared changing flag is true exactly while some sync action has started
\* its remote work and not finished; stated for the states in which no two of them
\* are the same action on the same pair, so in particular for overlapping actions on
\* two different pairs, where it stays true until the last one finishes.
C19_ChangingWhileBusy ==
    (\A c1, c2 \in SyncBusy : (c1.op = c2.op /\ c1.uuid = c2.uuid) => c1 = c2)
    => changing = (SyncBusy # {})

\* C20: a createDirectory whose remote call completes while the drive list shows
\* another directory than the one the invocation passed as parent leaves the drive
\* listing as it is: it inserts nothing into it and removes nothing from it.
C20_OtherParentUntouched ==
    [][\A c \in calls :
          ( /\ c.op = "createDirectory" /\ c.await = "createDirectory"
            /\ Ends(c) /\ rejected' = 0
            /\ c.parent # parent )
          => items' = items]_vars

====
